---------------------------- MODULE Spec2Model ----------------------------
(***************************************************************************)
(* Verification model of the Fabric/Telebirr payment backend:              *)
(*   - the token cache of service/applyFabricTokenService.js               *)
(*   - the request canonicalisation and signing of utils/tools.js          *)
(*   - the order, mandate-order and auth-token handlers of the services    *)
(*     behind the routes of app.js                                         *)
(* Time is counted in whole seconds (the code counts milliseconds and      *)
(* multiplies every second count by 1000).                                 *)
(***************************************************************************)
EXTENDS Integers, Sequences, FiniteSets, TLC

VARIABLES
  tokenCache,   \* the module-level cache slot (null or {data, expiresAt})
  now,          \* Date.now(), in seconds
  pc,           \* per caller: position inside applyFabricToken
  inflight,     \* per caller: number of the token request it awaits (0: none)
  posts,        \* requests sent to /payment/v1/token so far
  anchor,       \* history: the most recent successful fetch (time, declared expiresIn, token)
  last,         \* history: what the last step of the token cache did
  ticks,        \* history: clock steps taken
  calls,        \* history: applyFabricToken calls started
  requestObject,\* the argument built for signRequestObject
  signed,       \* what the last signRequestObject call produced
  assigns,      \* history: property assignments made while building requestObject
  signing,      \* the last signString call: its arguments and what it gave
  wire,         \* the signature as it reaches the verifier
  verified,     \* the last verifySignature call: its arguments and what it gave
  envelope,     \* a signed request object: its properties and its sign property
  validated,    \* the last validateRequestSignature call: its key and what it gave
  lastNonce,    \* the last createNonceStr call: its argument, its bytes and what it gave
  reqs,         \* per incoming HTTP request: where its handler stands and what it did
  config        \* config/config.js: privateKey, the key outgoing requests are signed with

tokenVars == <<tokenCache, now, pc, inflight, posts, anchor, last, ticks, calls>>

canonVars == <<requestObject, signed, assigns>>

signVars == <<signing, wire, verified, envelope, validated>>

orderVars == <<reqs, config>>

nonceVars == <<lastNonce>>

vars == <<tokenVars, canonVars, signVars, orderVars, nonceVars>>

-----------------------------------------------------------------------------
(* Bounds of the model *)

NumCallers == 2

MaxCalls == 3

MaxTicks == 3

MaxAssigns == 3

Callers == 1..NumCallers

\* clock steps, in seconds
TickSteps == {1, 69}

-----------------------------------------------------------------------------
(* Token cache: service/applyFabricTokenService.js *)

\* a response that carries no expiresIn field
Omitted == -1

\* expiresIn values the token endpoint may declare
ExpiresInValues == {Omitted, 0, 20, 100}

bufferSeconds == 30

DefaultExpiresIn == 3600

NoData == [token |-> 0, expiresIn |-> Omitted]

\* tokenCache = null
Null == [data |-> NoData, expiresAt |-> 0]

NoAnchor == [t |-> 0, E |-> Omitted, token |-> 0]

NoStep == [op |-> "init", c |-> 0, ret |-> NoData, flag |-> FALSE, before |-> Null, req |-> 0]

\* variant: the validity test without the safety buffer
isTokenValidNoBuffer(cache) ==
  IF cache = Null THEN FALSE ELSE now < cache.expiresAt

\* isTokenValid: Date.now() < cache.expiresAt - bufferSeconds * 1000
isTokenValid(cache) ==
  IF cache = Null THEN FALSE ELSE now < cache.expiresAt - bufferSeconds

\* tokenData.expiresIn || 3600
expiresInOrDefault(tokenData) ==
  IF tokenData.expiresIn = Omitted \/ tokenData.expiresIn = 0
    THEN DefaultExpiresIn
    ELSE tokenData.expiresIn

\* variant: an entry that takes no validity from the response
CacheEntryNoExpiry(tokenData) ==
  [data |-> tokenData, expiresAt |-> now]

\* variant: an entry already in the slot is left there
CacheEntryKeepExisting(tokenData) ==
  IF tokenCache # Null THEN tokenCache
  ELSE [data |-> tokenData, expiresAt |-> now + expiresInOrDefault(tokenData)]

\* tokenCache = { data: tokenData, expiresAt: Date.now() + expiresIn * 1000 }
CacheEntry(tokenData) ==
  [data |-> tokenData, expiresAt |-> now + expiresInOrDefault(tokenData)]

\* variant: a failure that leaves the slot as it is
KeepCacheOnFailure == tokenCache

\* the catch block of applyFabricToken: clearTokenCache()
CacheAfterFailure == Null

TokenStart ==
  /\ tokenCache = Null
  /\ now = 0
  /\ pc = [c \in Callers |-> "idle"]
  /\ inflight = [c \in Callers |-> 0]
  /\ posts = 0
  /\ anchor = NoAnchor
  /\ last = NoStep
  /\ ticks = 0
  /\ calls = 0

\* applyFabricToken, first step, cache hit: return tokenCache.data
applyFabricToken_cached(c) ==
  /\ pc[c] = "idle"
  /\ calls < MaxCalls
  /\ tokenCache # Null /\ isTokenValid(tokenCache)
  /\ calls' = calls + 1
  /\ last' = [op |-> "cached", c |-> c, ret |-> tokenCache.data,
              flag |-> FALSE, before |-> tokenCache, req |-> 0]
  /\ UNCHANGED <<tokenCache, now, pc, inflight, posts, anchor, ticks, canonVars, signVars, orderVars, nonceVars>>

\* applyFabricToken, first step, cache miss: requestNewToken() posts and awaits
applyFabricToken_request(c) ==
  /\ pc[c] = "idle"
  /\ calls < MaxCalls
  /\ ~(tokenCache # Null /\ isTokenValid(tokenCache))
  /\ calls' = calls + 1
  /\ posts' = posts + 1
  /\ inflight' = [inflight EXCEPT ![c] = posts + 1]
  /\ pc' = [pc EXCEPT ![c] = "awaiting"]
  /\ last' = [op |-> "posted", c |-> c, ret |-> NoData,
              flag |-> FALSE, before |-> tokenCache, req |-> posts + 1]
  /\ UNCHANGED <<tokenCache, now, anchor, ticks, canonVars, signVars, orderVars, nonceVars>>

\* what the token endpoint may answer to request number r: a body with or
\* without a token field, or no usable answer at all
Responses(r) ==
  {[kind |-> "ok", data |-> [token |-> t, expiresIn |-> e]] :
      t \in {r, 0}, e \in ExpiresInValues}
  \cup {[kind |-> k, data |-> NoData] : k \in {"transport", "timeout"}}

\* variant: any answered post counts as a token
requestNewTokenUnchecked(resp) == resp.kind = "ok"

\* requestNewToken returns tokenData iff the post succeeded and the body has a token
requestNewToken(resp) == resp.kind = "ok" /\ resp.data.token # 0

\* the response carries a token: store it and return it
applyFabricToken_resolved(c) ==
  /\ pc[c] = "awaiting"
  /\ \E resp \in Responses(inflight[c]) :
       /\ requestNewToken(resp)
       /\ tokenCache' = CacheEntry(resp.data)
       /\ anchor' = [t |-> now, E |-> resp.data.expiresIn, token |-> resp.data.token]
       /\ last' = [op |-> "stored", c |-> c, ret |-> resp.data,
                   flag |-> FALSE, before |-> tokenCache, req |-> inflight[c]]
  /\ pc' = [pc EXCEPT ![c] = "idle"]
  /\ inflight' = [inflight EXCEPT ![c] = 0]
  /\ UNCHANGED <<now, posts, ticks, calls, canonVars, signVars, orderVars, nonceVars>>

\* transport error, timeout, or a response without a token: clear and throw
applyFabricToken_rejected(c) ==
  /\ pc[c] = "awaiting"
  /\ \E resp \in Responses(inflight[c]) :
       /\ ~requestNewToken(resp)
       /\ last' = [op |-> "failed", c |-> c, ret |-> NoData,
                   flag |-> FALSE, before |-> tokenCache, req |-> inflight[c]]
  /\ tokenCache' = CacheAfterFailure
  /\ pc' = [pc EXCEPT ![c] = "idle"]
  /\ inflight' = [inflight EXCEPT ![c] = 0]
  /\ UNCHANGED <<now, posts, anchor, ticks, calls, canonVars, signVars, orderVars, nonceVars>>

\* the exported clearTokenCache()
clearTokenCache ==
  /\ tokenCache # Null
  /\ tokenCache' = Null
  /\ anchor' = NoAnchor
  /\ last' = [op |-> "cleared", c |-> 0, ret |-> NoData,
              flag |-> FALSE, before |-> tokenCache, req |-> 0]
  /\ UNCHANGED <<now, pc, inflight, posts, ticks, calls, canonVars, signVars, orderVars, nonceVars>>

\* getCachedToken: tokenCache && tokenCache.data ? tokenCache.data : null
\* (NoData stands for the null it returns)
getCachedToken == IF tokenCache # Null THEN tokenCache.data ELSE NoData

\* hasValidToken: return isTokenValid(tokenCache)
hasValidToken == isTokenValid(tokenCache)

\* a caller reads the exported hasValidToken()
Call_hasValidToken ==
  /\ last' = [op |-> "hasValidToken", c |-> 0, ret |-> NoData, flag |-> hasValidToken,
              before |-> tokenCache, req |-> 0]
  /\ UNCHANGED <<tokenCache, now, pc, inflight, posts, anchor, ticks, calls, canonVars, signVars, orderVars, nonceVars>>

\* a caller reads the exported getCachedToken()
Call_getCachedToken ==
  /\ last' = [op |-> "getCachedToken", c |-> 0, ret |-> getCachedToken, flag |-> FALSE,
              before |-> tokenCache, req |-> 0]
  /\ UNCHANGED <<tokenCache, now, pc, inflight, posts, anchor, ticks, calls, canonVars, signVars, orderVars, nonceVars>>

Tick ==
  /\ ticks < MaxTicks
  /\ \E d \in TickSteps : now' = now + d
  /\ ticks' = ticks + 1
  /\ last' = [op |-> "tick", c |-> 0, ret |-> NoData,
              flag |-> FALSE, before |-> tokenCache, req |-> 0]
  /\ UNCHANGED <<tokenCache, pc, inflight, posts, anchor, calls, canonVars, signVars, orderVars, nonceVars>>

-----------------------------------------------------------------------------
(* Request canonicalisation: utils/tools.js                                *)
(* A JavaScript value is a pair <<type, payload>>; an object's payload is  *)
(* the sequence of its <<key, value>> properties in insertion order.       *)

EXCLUDE_FIELDS ==
  {"sign", "sign_type", "header", "refund_info", "openType", "raw_request", "biz_content"}

Str(s) == <<"string", s>>

\* a number, carried as its decimal rendering
Num(s) == <<"number", s>>

JsNull == <<"null", "">>

Undefined == <<"undefined", "">>

Obj(o) == <<"object", o>>

IsNullish(v) == v[1] \in {"null", "undefined"}

\* the UTF-16 code units of the property names used here
KeyCodes ==
    [method |-> <<109, 101, 116, 104, 111, 100>>,
     Title |-> <<84, 105, 116, 108, 101>>,
     title |-> <<116, 105, 116, 108, 101>>,
     extra |-> <<101, 120, 116, 114, 97>>,
     sign |-> <<115, 105, 103, 110>>,
     biz_content |-> <<98, 105, 122, 95, 99, 111, 110, 116, 101, 110, 116>>,
     p |-> <<112>>,
     q |-> <<113>>,
     a |-> <<97>>,
     appid |-> <<97, 112, 112, 105, 100>>,
     merch_code |-> <<109, 101, 114, 99, 104, 95, 99, 111, 100, 101>>,
     nonce_str |-> <<110, 111, 110, 99, 101, 95, 115, 116, 114>>,
     prepay_id |-> <<112, 114, 101, 112, 97, 121, 95, 105, 100>>,
     timestamp |-> <<116, 105, 109, 101, 115, 116, 97, 109, 112>>]
    @@ ("0" :> <<48>>)

RECURSIVE LexLess(_, _)
LexLess(s, t) ==
  IF t = <<>> THEN FALSE
  ELSE IF s = <<>> THEN TRUE
  ELSE IF s[1] # t[1] THEN s[1] < t[1]
  ELSE LexLess(Tail(s), Tail(t))

\* the default comparison of Array.prototype.sort: by code units
CodeUnitLess(a, b) == LexLess(KeyCodes[a], KeyCodes[b])

RECURSIVE InsertSorted(_, _)
InsertSorted(k, sorted) ==
  IF sorted = <<>> THEN <<k>>
  ELSE IF CodeUnitLess(k, Head(sorted)) THEN <<k>> \o sorted
  ELSE <<Head(sorted)>> \o InsertSorted(k, Tail(sorted))

RECURSIVE SortKeys(_)
SortKeys(names) ==
  IF names = <<>> THEN <<>> ELSE InsertSorted(Head(names), SortKeys(Tail(names)))

ObjectKeys(o) == [i \in 1..Len(o) |-> o[i][1]]

HasKey(o, k) == \E i \in 1..Len(o) : o[i][1] = k

GetKey(o, k) == o[CHOOSE i \in 1..Len(o) : o[i][1] = k][2]

\* o[k] = v: an existing property keeps its place, a new one goes last
SetKey(o, k, v) ==
  IF HasKey(o, k)
    THEN [i \in 1..Len(o) |-> IF o[i][1] = k THEN <<k, v>> ELSE o[i]]
    ELSE Append(o, <<k, v>>)

\* delete o[k]
DeleteKey(o, k) == SelectSeq(o, LAMBDA prop : prop[1] # k)

\* JSON.parse(JSON.stringify(o)): undefined properties vanish, at every depth
RECURSIVE JsonCopy(_)
JsonCopy(o) ==
  IF o = <<>> THEN <<>>
  ELSE LET prop == Head(o)
           rest == JsonCopy(Tail(o))
       IN IF prop[2][1] = "undefined" THEN rest
          ELSE IF prop[2][1] = "object"
            THEN << <<prop[1], Obj(JsonCopy(prop[2][2]))>> >> \o rest
            ELSE <<prop>> \o rest

\* variant: an array passes for an object, as typeof alone would have it
IsObjectOrArray(v) == v[1] \in {"object", "array"}

\* validateAndPrepareObject rejects what is not a plain object
IsPlainObject(v) == v[1] = "object"

\* variant: the copy keeps its null properties
validateKeepingNull(o) == JsonCopy(o)

\* validateAndPrepareObject: deep copy, then drop the top-level null properties
validateAndPrepareObject(o) ==
  SelectSeq(JsonCopy(o), LAMBDA prop : ~IsNullish(prop[2]))

\* variant: preparedObj is the caller's object itself
CallerRef == "caller"

\* preparedObj names a fresh object: JSON.parse(JSON.stringify(obj))
PreparedRef == "prepared"

\* the caller's object once signRequestObject is through with it: every delete
\* and assignment of the call goes to preparedObj or to the spread copy made of it
CallerObjectAfter(o) ==
  LET heap == [caller |-> o, prepared |-> <<>>]
  IN [heap EXCEPT ![PreparedRef] = validateAndPrepareObject(o)].caller

RECURSIVE MergeBiz(_, _)
MergeBiz(flattened, bizContent) ==
  IF bizContent = <<>> THEN flattened
  ELSE LET prop == Head(bizContent) IN
       IF prop[1] \notin EXCLUDE_FIELDS /\ ~IsNullish(prop[2])
         THEN MergeBiz(SetKey(flattened, prop[1], prop[2]), Tail(bizContent))
         ELSE MergeBiz(flattened, Tail(bizContent))

\* variant: biz_content is dropped and its properties with it
flattenWithoutBiz(o) == DeleteKey(o, "biz_content")

\* flattenObjectForSigning: biz_content leaves the top level, its own
\* properties join it
flattenObjectForSigning(o) ==
  IF HasKey(o, "biz_content") /\ GetKey(o, "biz_content")[1] = "object"
    THEN MergeBiz(DeleteKey(o, "biz_content"), GetKey(o, "biz_content")[2])
    ELSE DeleteKey(o, "biz_content")

\* variant: every property name takes part
AllFieldNames(flattened) == ObjectKeys(flattened)

\* Object.keys(flattenedObject).filter(key => !EXCLUDE_FIELDS.includes(key))
SignableFieldNames(flattened) ==
  SelectSeq(ObjectKeys(flattened), LAMBDA k : k \notin EXCLUDE_FIELDS)

\* variant: the names are left in insertion order
InsertionOrder(names) == names

\* .sort()
SortedFieldNames(names) == SortKeys(names)

RECURSIVE JsonStringify(_)
RECURSIVE JsonMembers(_)
\* the members of an object literal, comma separated, in property order
JsonMembers(o) ==
  IF o = <<>> THEN ""
  ELSE "\"" \o Head(o)[1] \o "\":" \o JsonStringify(Head(o)[2])
       \o (IF Len(o) > 1 THEN "," ELSE "") \o JsonMembers(Tail(o))

\* JSON.stringify of a value that went through JsonCopy
JsonStringify(v) ==
  CASE v[1] = "string" -> "\"" \o v[2] \o "\""
    [] v[1] = "number" -> v[2]
    [] v[1] = "object" -> "{" \o JsonMembers(v[2]) \o "}"
    [] OTHER -> "null"

\* typeof value === 'object' ? JSON.stringify(value) : String(value)
StringValue(v) ==
  IF v[1] \in {"object", "null"} THEN JsonStringify(v) ELSE v[2]

\* signParts: one <<key, rendered value>> per field name
SignParts(flattened, fieldNames) ==
  [i \in 1..Len(fieldNames) |->
     <<fieldNames[i], StringValue(GetKey(flattened, fieldNames[i]))>>]

RECURSIVE JoinParts(_)
\* signParts.map(`${key}=${stringValue}`).join('&')
JoinParts(parts) ==
  IF parts = <<>> THEN ""
  ELSE Head(parts)[1] \o "=" \o Head(parts)[2]
       \o (IF Len(parts) > 1 THEN "&" ELSE "") \o JoinParts(Tail(parts))

NotSigned == [status |-> "none", parts |-> <<>>, str |-> ""]

Failure == [status |-> "error", parts |-> <<>>, str |-> ""]

\* variant: an empty list of field names is let through
NeverRejects(fieldNames) == FALSE

\* fieldNames.length === 0: 'No signable fields found in request object'
RejectsEmpty(fieldNames) == Len(fieldNames) = 0

\* signRequestObject up to the canonical string it hands to signString
CanonicalOf(value) ==
  IF ~IsPlainObject(value) THEN Failure
  ELSE LET flattenedObject == flattenObjectForSigning(validateAndPrepareObject(value[2]))
           fieldNames == SortedFieldNames(SignableFieldNames(flattenedObject))
           signParts == SignParts(flattenedObject, fieldNames)
       IN IF RejectsEmpty(fieldNames) THEN Failure
          ELSE [status |-> "ok", parts |-> signParts, str |-> JoinParts(signParts)]

\* the same properties and values in another insertion order, at every depth
RECURSIVE Reorderings(_)
RECURSIVE InnerReorderings(_)
\* o with the object values among its properties reordered, its own order kept
InnerReorderings(o) ==
  IF o = <<>> THEN {<<>>}
  ELSE LET prop == Head(o)
           values == IF prop[2][1] = "object"
                       THEN {Obj(r) : r \in Reorderings(prop[2][2])}
                       ELSE {prop[2]}
       IN {<< <<prop[1], v>> >> \o rest : v \in values, rest \in InnerReorderings(Tail(o))}

Reorderings(o) ==
  {[i \in 1..Len(o) |-> inner[pm[i]]] :
     pm \in Permutations(1..Len(o)), inner \in InnerReorderings(o)}

\* values a caller may give the top-level properties
TopAssignments ==
  {<<"method", Str("pay")>>, <<"method", JsNull>>,
   <<"Title", Str("")>>, <<"Title", Undefined>>,
   <<"sign", Str("S")>>,
   <<"biz_content", Str("raw")>>}

\* values a caller may give the properties of biz_content
BizAssignments ==
  {<<"title", Num("1")>>, <<"title", JsNull>>,
   <<"title", Str("")>>,
   <<"method", Str("get")>>,
   <<"sign", Str("Z")>>,
   <<"extra", Obj(<< <<"p", Num("1")>>, <<"q", Str("x")>> >>)>>,
   <<"extra", Obj(<< <<"q", Str("x")>>, <<"p", Num("1")>> >>)>>,
   <<"extra", Obj(<< <<"p", JsNull>> >>)>>}

\* what a caller may pass that is no plain object
NonObjects ==
  {JsNull, Undefined, Str("x"), Str(""), Num("1"), Num("0"),
   <<"array", << <<"0", Str("a")>> >> >>}

CanonStart ==
  /\ requestObject = Obj(<<>>)
  /\ signed = [a |-> NotSigned, twin |-> Obj(<<>>), b |-> NotSigned, input |-> Undefined]
  /\ assigns = 0

CanonInit ==
  /\ requestObject \in {Obj(<<>>)} \cup NonObjects
  /\ signed = [a |-> NotSigned, twin |-> Obj(<<>>), b |-> NotSigned, input |-> Undefined]
  /\ assigns = 0

\* requestObject[k] = v
AssignTop ==
  /\ signed.a.status = "none"
  /\ IsPlainObject(requestObject)
  /\ assigns < MaxAssigns
  /\ \E kv \in TopAssignments :
       requestObject' = Obj(SetKey(requestObject[2], kv[1], kv[2]))
  /\ assigns' = assigns + 1
  /\ UNCHANGED <<signed, tokenVars, signVars, orderVars, nonceVars>>

\* requestObject.biz_content[k] = v, on a biz_content object made when needed
AssignBiz ==
  /\ signed.a.status = "none"
  /\ IsPlainObject(requestObject)
  /\ assigns < MaxAssigns
  /\ \E kv \in BizAssignments :
       LET o == requestObject[2]
           biz == IF HasKey(o, "biz_content") /\ GetKey(o, "biz_content")[1] = "object"
                    THEN GetKey(o, "biz_content")[2]
                    ELSE <<>>
       IN requestObject' = Obj(SetKey(o, "biz_content", Obj(SetKey(biz, kv[1], kv[2]))))
  /\ assigns' = assigns + 1
  /\ UNCHANGED <<signed, tokenVars, signVars, orderVars, nonceVars>>

\* signRequestObject(requestObject), and the same call on a reordered twin;
\* signed.input is the argument as it was when the call began
CallSignRequestObject ==
  /\ signed.a.status = "none"
  /\ \E twin \in (IF IsPlainObject(requestObject)
                    THEN {Obj(r) : r \in Reorderings(requestObject[2])}
                    ELSE {requestObject}) :
       signed' = [a |-> CanonicalOf(requestObject), twin |-> twin, b |-> CanonicalOf(twin),
                  input |-> requestObject]
  /\ requestObject' = IF IsPlainObject(requestObject)
                         THEN Obj(CallerObjectAfter(requestObject[2]))
                         ELSE requestObject
  /\ UNCHANGED <<assigns, tokenVars, signVars, orderVars, nonceVars>>

-----------------------------------------------------------------------------
(* Signing and verification: utils/tools.js over the sign-util-lib RSA code *)

SHA256WithRSA == "SHA256withRSAandMGF1"

KeyPairs == {1, 2}

\* what a caller may pass as a key: a PEM of either kind, text that is no key,
\* or nothing
KeyArgs ==
  {<<kind, k>> : kind \in {"private", "public"}, k \in KeyPairs}
  \cup {<<"garbage", 0>>, <<"missing", 0>>}

\* what a caller may pass as the text
Texts == {Str("a=1"), Str("a=2"), Str(""), Num("1"), Undefined}

\* the random salts of the probabilistic padding
Salts == {1, 2}

\* the places at which a signature may be altered on its way
AlteredPositions == {1, 2}

NoSignature ==
  [enc |-> "none", text |-> Undefined, pair |-> 0, alg |-> "", salt |-> 0, altered |-> 0]

\* !x of a text argument: undefined and the empty string are falsy
IsFalsyText(text) == text = Undefined \/ text = Str("")

IsString(text) == text[1] = "string"

\* Signature.init(key) accepts a PEM key and throws on anything else
KeyParses(key) == key[1] \in {"private", "public"}

\* Signature.sign(): the RSA signature over the text's digest, in hex
RsaSign(text, key, alg, salt) ==
  [enc |-> "hex", text |-> text, pair |-> key[2], alg |-> alg, salt |-> salt, altered |-> 0]

\* Signature.verify(hex): true for an unaltered signature of this text under the
\* matching private key and the same scheme
RsaVerify(text, hexSignature, key, alg) ==
  /\ hexSignature.enc = "hex"
  /\ hexSignature.altered = 0
  /\ key[1] = "public"
  /\ hexSignature.pair = key[2]
  /\ hexSignature.text = text
  /\ hexSignature.alg = alg

hextob64(sig) == [sig EXCEPT !.enc = IF sig.enc = "hex" THEN "base64" ELSE "none"]

b64tohex(sig) == [sig EXCEPT !.enc = IF sig.enc = "base64" THEN "hex" ELSE "none"]

\* variant: signString without its test of the text argument
signStringAnyText(text, privateKey, salt) ==
  IF privateKey[1] = "missing" THEN [status |-> "error", sig |-> NoSignature]
  ELSE IF ~KeyParses(privateKey) \/ privateKey[1] # "private"
    THEN [status |-> "error", sig |-> NoSignature]
  ELSE [status |-> "ok", sig |-> hextob64(RsaSign(text, privateKey, SHA256WithRSA, salt))]

\* signString(text, privateKey) with the default algorithm
signString(text, privateKey, salt) ==
  IF IsFalsyText(text) \/ ~IsString(text) THEN [status |-> "error", sig |-> NoSignature]
  ELSE IF privateKey[1] = "missing" THEN [status |-> "error", sig |-> NoSignature]
  ELSE IF ~KeyParses(privateKey) \/ privateKey[1] # "private"
    THEN [status |-> "error", sig |-> NoSignature]
  ELSE [status |-> "ok", sig |-> hextob64(RsaSign(text, privateKey, SHA256WithRSA, salt))]

\* variant: the base64 signature is handed to the verifier undecoded
verifySignatureUndecoded(text, signature, publicKey) ==
  IF IsFalsyText(text) \/ signature.enc = "none" \/ publicKey[1] = "missing" THEN "false"
  ELSE IF ~KeyParses(publicKey)
    THEN (IF IsString(text) THEN "false" ELSE "throws")
  ELSE IF RsaVerify(text, signature, publicKey, SHA256WithRSA) THEN "true" ELSE "false"

\* verifySignature(text, signature, publicKey) with the default algorithm; its
\* catch block reads text.substring, which only a string has
verifySignature(text, signature, publicKey) ==
  IF IsFalsyText(text) \/ signature.enc = "none" \/ publicKey[1] = "missing" THEN "false"
  ELSE IF ~KeyParses(publicKey)
    THEN (IF IsString(text) THEN "false" ELSE "throws")
  ELSE IF RsaVerify(text, b64tohex(signature), publicKey, SHA256WithRSA)
    THEN "true" ELSE "false"

NotCalled == [text |-> Undefined, key |-> <<"missing", 0>>, out |-> "none"]

\* signRequestObject(requestObject, privateKey): the signature of the canonical
\* string, or an error
signRequestObject(value, privateKey, salt) ==
  LET canonical == CanonicalOf(value) IN
  IF privateKey[1] = "missing" \/ canonical.status # "ok"
    THEN [status |-> "error", sig |-> NoSignature]
    ELSE signString(Str(canonical.str), privateKey, salt)

\* validateRequestSignature(requestObject, publicKey), on a request object given
\* as its sign property and its other properties
validateRequestSignature(request, publicKey, salt) ==
  IF request.sign.enc = "none" THEN FALSE
  ELSE IF publicKey[1] = "missing" THEN FALSE
  ELSE LET expectedSignature ==
             signRequestObject(Obj(request.fields), config.privateKey, salt)
       IN IF expectedSignature.status # "ok" THEN FALSE
          ELSE request.sign = expectedSignature.sig

\* the properties of the request objects a sender signs
EnvelopeFields ==
  {<< <<"a", Str("1")>> >>,
   << <<"method", Str("pay")>>, <<"a", Str("1")>> >>}

\* the public keys a receiver may pass: that of the configured pair, that of
\* another pair, or none
PublicKeyArgs == {<<"public", k>> : k \in KeyPairs} \cup {<<"missing", 0>>}

NoEnvelope == [fields |-> <<>>, sign |-> NoSignature, signedFields |-> <<>>]

SignStart ==
  /\ signing = [text |-> Undefined, key |-> <<"missing", 0>>,
                out |-> [status |-> "none", sig |-> NoSignature]]
  /\ wire = NoSignature
  /\ verified = NotCalled
  /\ envelope = NoEnvelope
  /\ validated = [key |-> <<"missing", 0>>, out |-> "none"]

\* a caller signs a text; the signature goes on the wire
CallSignString ==
  /\ signing.out.status = "none"
  /\ \E text \in Texts, key \in KeyArgs, salt \in Salts :
       LET out == signString(text, key, salt) IN
       /\ signing' = [text |-> text, key |-> key, out |-> out]
       /\ wire' = out.sig
  /\ UNCHANGED <<verified, envelope, validated, tokenVars, canonVars, orderVars, nonceVars>>

\* the signature is altered at one place before it is verified
AlterSignature ==
  /\ signing.out.status = "ok"
  /\ verified.out = "none"
  /\ wire.altered = 0
  /\ \E pos \in AlteredPositions : wire' = [wire EXCEPT !.altered = pos]
  /\ UNCHANGED <<signing, verified, envelope, validated, tokenVars, canonVars, orderVars, nonceVars>>

\* a receiver verifies a text against the signature on the wire
CallVerifySignature ==
  /\ signing.out.status # "none"
  /\ verified.out = "none"
  /\ \E text \in Texts, key \in KeyArgs :
       verified' = [text |-> text, key |-> key, out |-> verifySignature(text, wire, key)]
  /\ UNCHANGED <<signing, wire, envelope, validated, tokenVars, canonVars, orderVars, nonceVars>>

\* a sender signs a request object with the configured private key and puts the
\* signature into its sign property
SignEnvelope ==
  /\ envelope.sign.enc = "none"
  /\ \E fields \in EnvelopeFields, salt \in Salts :
       LET out == signRequestObject(Obj(fields), config.privateKey, salt) IN
       /\ out.status = "ok"
       /\ envelope' = [fields |-> fields, sign |-> out.sig, signedFields |-> fields]
  /\ UNCHANGED <<signing, wire, verified, validated, tokenVars, canonVars, orderVars, nonceVars>>

\* a signed field of the request object is altered before it is validated
AlterSignedField ==
  /\ envelope.sign.enc # "none"
  /\ validated.out = "none"
  /\ envelope.fields = envelope.signedFields
  /\ envelope' = [envelope EXCEPT !.fields = SetKey(@, "a", Str("2"))]
  /\ UNCHANGED <<signing, wire, verified, validated, tokenVars, canonVars, orderVars, nonceVars>>

\* a receiver validates the request object
CallValidateRequestSignature ==
  /\ envelope.sign.enc # "none"
  /\ validated.out = "none"
  /\ \E key \in PublicKeyArgs, salt \in Salts :
       validated' = [key |-> key,
                     out |-> IF validateRequestSignature(envelope, key, salt)
                               THEN "true" ELSE "false"]
  /\ UNCHANGED <<signing, wire, verified, envelope, tokenVars, canonVars, orderVars, nonceVars>>

-----------------------------------------------------------------------------
(* Incoming requests: the routes of app.js and the handlers of             *)
(* service/createOrderService, service/createMandetOrderService and        *)
(* service/authTokenService. A handler runs from one await to the next in  *)
(* one step.                                                               *)

\* the incoming requests that may be in the handlers at the same time
Requests == {1, 2}

Flows == {"order", "mandate", "auth"}

\* a request comes in through its route of app.js, or the exported handler of
\* the service is called with (req, res) directly
Entries == {"route", "handler"}

MaxTitleLength == 256

MaxContractNoLength == 100

MaxAuthTokenLength == 512

MaxAmount == 1000000

\* a floating point number, or NaN
Float(n) == [nan |-> FALSE, val |-> n]

NaN == [nan |-> TRUE, val |-> 0]

\* parseFloat on the amounts used here: the longest numeric prefix counts
ParsedFloat ==
  ("0" :> Float(0)) @@ ("100" :> Float(100)) @@ ("1000001" :> Float(1000001))
  @@ ("12abc" :> Float(12)) @@ ("abc" :> NaN)

parseFloat(v) ==
  IF v[1] \in {"number", "string"} /\ v[2] \in DOMAIN ParsedFloat
    THEN ParsedFloat[v[2]]
    ELSE NaN

\* !v
Falsy(v) == IsNullish(v) \/ v = Str("") \/ v = Num("0")

\* v.trim() === '' for a string v
TrimsToEmpty(v) == v[2] \in {"", " ", "  "}

\* v.length for a string v
Length(v) == Len(v[2])

\* req.body as body-parser leaves it: an object with these properties, undefined
\* where the client sent none
Body(title, amount, ContractNo, authToken) ==
  [title |-> title, amount |-> amount, ContractNo |-> ContractNo, authToken |-> authToken]

NoBody == Body(Undefined, Undefined, Undefined, Undefined)

RECURSIVE Repeat(_, _)
\* the string made of n copies of s
Repeat(s, n) == IF n = 0 THEN "" ELSE s \o Repeat(s, n - 1)

\* a title one character over the limit
LongTitle == Str(Repeat("t", MaxTitleLength + 1))

\* a contract number one character over the limit
LongContractNo == Str(Repeat("c", MaxContractNoLength + 1))

\* bodies sent to the two order routes
OrderBodies ==
  {Body(Str("Sub"), Num("100"), Str("C1"), Undefined),
   Body(Str("Sub"), Num("1000001"), Str("C1"), Undefined),
   Body(LongTitle, Num("100"), Str("C1"), Undefined),
   Body(Str("Sub"), Num("100"), LongContractNo, Undefined),
   Body(Str("Sub"), Num("100"), Undefined, Undefined),
   Body(Str("Sub"), Num("0"), Str("C1"), Undefined),
   Body(Str("Sub"), Str("abc"), Str("C1"), Undefined),
   Body(Str("Sub"), Str("12abc"), Str("C1"), Undefined),
   Body(Str(""), Num("100"), Str("C1"), Undefined),
   Body(Str("  "), Num("100"), Str("C1"), Undefined),
   Body(Undefined, Num("0"), Undefined, Undefined)}

\* bodies sent to the auth-token route
AuthBodies ==
  {Body(Undefined, Undefined, Undefined, Str("tok")),
   Body(Undefined, Undefined, Undefined, Num("7")),
   NoBody}

BodiesOf(flow) == IF flow = "auth" THEN AuthBodies ELSE OrderBodies

\* validateOrderRequest(title, amount) of createOrderService: the errors array
validateOrderRequest(title, amount) ==
  (IF Falsy(title) \/ ~IsString(title) \/ TrimsToEmpty(title)
     THEN <<"Valid title is required">>
     ELSE IF Length(title) > MaxTitleLength
       THEN <<"Title is too long (max 256 characters)">>
       ELSE <<>>)
  \o
  (IF Falsy(amount) /\ amount # Num("0")
     THEN <<"Amount is required">>
     ELSE LET parsedAmount == parseFloat(amount) IN
          IF parsedAmount.nan THEN <<"Amount must be a valid number">>
          ELSE IF parsedAmount.val <= 0 THEN <<"Amount must be greater than 0">>
          ELSE IF parsedAmount.val > MaxAmount THEN <<"Amount exceeds maximum limit">>
          ELSE <<>>)

\* validateCreateOrderRequest(requestBody) of createMandetOrderService
validateCreateOrderRequest(requestBody) ==
  (IF Falsy(requestBody.title) \/ ~IsString(requestBody.title)
      \/ TrimsToEmpty(requestBody.title)
     THEN <<"Valid title is required">> ELSE <<>>)
  \o
  (IF Falsy(requestBody.amount)
     THEN <<"Amount is required">>
     ELSE LET amount == parseFloat(requestBody.amount) IN
          IF amount.nan \/ amount.val <= 0
            THEN <<"Amount must be a positive number">> ELSE <<>>)
  \o
  (IF Falsy(requestBody.ContractNo) \/ ~IsString(requestBody.ContractNo)
      \/ TrimsToEmpty(requestBody.ContractNo)
     THEN <<"Valid ContractNo is required">> ELSE <<>>)
  \o
  (IF ~Falsy(requestBody.title) /\ IsString(requestBody.title)
      /\ Length(requestBody.title) > MaxTitleLength
     THEN <<"Title is too long (max 256 characters)">> ELSE <<>>)
  \o
  (IF ~Falsy(requestBody.ContractNo) /\ IsString(requestBody.ContractNo)
      /\ Length(requestBody.ContractNo) > MaxContractNoLength
     THEN <<"ContractNo is too long (max 100 characters)">> ELSE <<>>)

\* validateAuthRequest(requestBody) of authTokenService
validateAuthRequest(requestBody) ==
  (IF Falsy(requestBody.authToken) THEN <<"authToken is required">> ELSE <<>>)
  \o
  (IF ~Falsy(requestBody.authToken) /\ ~IsString(requestBody.authToken)
     THEN <<"authToken must be a string">> ELSE <<>>)
  \o
  (IF ~Falsy(requestBody.authToken) /\ IsString(requestBody.authToken)
      /\ Length(requestBody.authToken) > MaxAuthTokenLength
     THEN <<"authToken is too long">> ELSE <<>>)

\* the validation each handler runs first
validation(flow, body) ==
  CASE flow = "order" -> validateOrderRequest(body.title, body.amount)
    [] flow = "mandate" -> validateCreateOrderRequest(body)
    [] OTHER -> validateAuthRequest(body)

\* no answer of the gateway yet
NoAnswer == [kind |-> "none", result_code |-> "", biz |-> "none", prepay_id |-> ""]

\* a request no handler has seen yet
Idle ==
  [flow |-> "none", entry |-> "none", body |-> NoBody, pc |-> "idle",
   tokenReq |-> 0, fabricToken |-> 0, applyCalls |-> 0, tokenPosts |-> 0,
   signCalls |-> 0, auth |-> <<>>, status |-> 0, errors |-> <<>>,
   answer |-> NoAnswer, rawSigned |-> <<>>, rawRequest |-> <<>>, writes |-> 0]

\* res.status(code).json(...): the first write is the response the client gets
Respond(q, code, errors, rawRequest) ==
  [q EXCEPT !.pc = "done",
            !.status = IF q.writes = 0 THEN code ELSE @,
            !.errors = IF q.writes = 0 THEN errors ELSE @,
            !.rawRequest = IF q.writes = 0 THEN rawRequest ELSE @,
            !.writes = @ + 1]

\* the /create/order route, once createOrder has returned: res.status(200)
\* .send(result) on the response already sent throws, and so does the
\* res.status(500).json of its catch block
RouteReturn(q) ==
  IF q.entry = "route" /\ q.flow = "order" THEN [q EXCEPT !.writes = @ + 2] ELSE q

\* the handler answers and returns to whoever called it
Finish(q, code, errors, rawRequest) == RouteReturn(Respond(q, code, errors, rawRequest))

\* the /create/mandetOrder route calls createMandetOrder.createMandetOrder, a
\* name the service does not export (it exports createMandateOrder)
RouteFindsHandler(flow) == flow # "mandate"

\* variant: a handler that starts over when the token fetch has failed
retryTokenFetch(q) ==
  IF q.applyCalls < 2
    THEN [q EXCEPT !.applyCalls = @ + 1, !.tokenPosts = @ + 1]
    ELSE Finish(q, 500, <<>>, <<>>)

\* applyFabricToken threw: the handler's catch block answers 500
afterTokenFailure(q) == Finish(q, 500, <<>>, <<>>)

\* variant: the header is read from the cache slot when the request is sent
AuthorizationFromCache(q) == tokenCache.data.token

\* headers: { Authorization: fabricToken }
Authorization(q) == q.fabricToken

\* signRequestObject(baseRequest), which signs with config.privateKey, on a
\* request that has signable fields
SignsRequest == signString(Str("canonical"), config.privateKey, 1).status = "ok"

\* the prepay_id values the gateway may hand out
PrepayIds == {"p1", "a+b"}

\* what the gateway may answer to a pre-order or auth-token request: a body with
\* its result_code and a biz_content that is absent, without prepay_id or with
\* one, or no usable answer at all (for auth-token, a result_code other than
\* "0" stands for a body that carries error_code)
GatewayAnswers ==
  {[kind |-> "ok", result_code |-> c, biz |-> b, prepay_id |-> ""] :
      c \in {"0", "E"}, b \in {"none", "empty"}}
  \cup {[kind |-> "ok", result_code |-> c, biz |-> "prepay", prepay_id |-> p] :
      c \in {"0", "E"}, p \in PrepayIds}
  \cup {[kind |-> "transport", result_code |-> "", biz |-> "none", prepay_id |-> ""]}

\* variant: the raw request is composed whenever a prepay_id came back
StatusByPrepayIdAlone(flow, ans) ==
  IF ans.kind = "transport" THEN 500
  ELSE IF flow # "auth" /\ ans.biz # "prepay" THEN 400
  ELSE 200

\* the HTTP status a handler answers once the gateway has answered
StatusAfterGateway(flow, ans) ==
  CASE flow = "order" ->
         IF ans.kind = "transport" THEN 500
         ELSE IF ans.biz # "prepay" /\ ans.result_code # "0" THEN 500
         ELSE IF ans.biz = "none" THEN 500
         ELSE IF ans.result_code # "0" \/ ans.biz # "prepay" THEN 400
         ELSE 200
    [] flow = "mandate" ->
         IF ans.kind = "transport" THEN 400
         ELSE IF ans.result_code # "0" \/ ans.biz # "prepay" THEN 400
         ELSE 200
    [] OTHER ->
         IF ans.kind = "transport" THEN 400
         ELSE IF ans.result_code # "0" THEN 400
         ELSE 200

\* tools.createNonceStr() as the handlers see it: some string of 32 symbols
Nonces == {Repeat("A", 32), Repeat("Z9", 16)}

\* tools.createTimeStamp(): the seconds since the epoch in decimal
Timestamps == {"1700000000"}

\* the base64 text of a signature; it may hold +, / and =
SignatureText == "c2ln+/8="

\* encodeURIComponent on the strings used here: +, / and = are escaped, letters,
\* digits and the other unreserved characters are left as they are
EscapedComponent ==
  ("a+b" :> "a%2Bb") @@ ("c2ln+/8=" :> "c2ln%2B%2F8%3D")

encodeURIComponent(s) ==
  IF s \in DOMAIN EscapedComponent THEN EscapedComponent[s] ELSE s

\* requestData of createRawRequestString, the same in both services
RawRequestData(prepayId, nonce, timestamp) ==
  << <<"appid", Str(config.merchantAppId)>>,
     <<"merch_code", Str(config.merchantCode)>>,
     <<"nonce_str", Str(nonce)>>,
     <<"prepay_id", Str(prepayId)>>,
     <<"timestamp", Str(timestamp)>> >>

\* tools.signRequestObject(requestData): the fields that are signed, if it signs
SignedRawRequest(requestData) ==
  LET canonical == CanonicalOf(Obj(requestData))
      signature == IF canonical.status = "ok"
                     THEN signString(Str(canonical.str), config.privateKey, 1)
                     ELSE [status |-> "error", sig |-> NoSignature]
  IN [status |-> signature.status,
      signed |-> IF signature.status = "ok" THEN canonical.parts ELSE <<>>]

\* the key=value pairs the raw request string is joined from, before sign
RawRequestFields(requestData) ==
  [i \in 1..Len(requestData) |-> <<requestData[i][1], requestData[i][2][2]>>]

\* createRawRequestString(prepayId) of createOrderService: the pairs of the
\* string, each value through encodeURIComponent
createRawRequestString(prepayId, nonce, timestamp) ==
  LET requestData == RawRequestData(prepayId, nonce, timestamp)
      signature == SignedRawRequest(requestData)
      fields == RawRequestFields(requestData)
  IN [status |-> signature.status,
      signed |-> signature.signed,
      rendered |->
        [i \in 1..Len(fields) |-> <<fields[i][1], encodeURIComponent(fields[i][2])>>]
        \o << <<"sign", encodeURIComponent(SignatureText)>>,
              <<"sign_type", "SHA256WithRSA">> >>]

\* createRawRequestString(prepayId) of createMandetOrderService: the pairs of
\* the string, each value as it is
createRawRequestString_mandate(prepayId, nonce, timestamp) ==
  LET requestData == RawRequestData(prepayId, nonce, timestamp)
      signature == SignedRawRequest(requestData)
      fields == RawRequestFields(requestData)
  IN [status |-> signature.status,
      signed |-> signature.signed,
      rendered |->
        fields \o << <<"sign", SignatureText>>, <<"sign_type", "SHA256WithRSA">> >>]

OrderStart ==
  /\ reqs = [r \in Requests |-> Idle]
  /\ config = [privateKey |-> <<"private", 1>>,
               merchantAppId |-> "1184379249100809", merchantCode |-> "735013"]

OrderInit ==
  /\ reqs = [r \in Requests |-> Idle]
  /\ config \in {[privateKey |-> k,
                   merchantAppId |-> "1184379249100809", merchantCode |-> "735013"] :
                    k \in {<<"private", 1>>, <<"garbage", 0>>}}

\* a request comes in: the route calls the handler, the handler validates the
\* body and, if it is valid, calls applyFabricToken, which returns the cached
\* token or posts to the token endpoint and awaits
Arrive(r) ==
  /\ reqs[r].pc = "idle"
  /\ \E flow \in Flows, entry \in Entries :
       \E body \in BodiesOf(flow) :
         LET q == [Idle EXCEPT !.flow = flow, !.entry = entry, !.body = body]
             errors == validation(flow, body)
             hit == tokenCache # Null /\ isTokenValid(tokenCache)
         IN IF entry = "route" /\ ~RouteFindsHandler(flow)
              THEN /\ reqs' = [reqs EXCEPT ![r] = Respond(q, 500, <<>>, <<>>)]
                   /\ UNCHANGED posts
            ELSE IF errors # <<>>
              THEN /\ reqs' = [reqs EXCEPT ![r] = Finish(q, 400, errors, <<>>)]
                   /\ UNCHANGED posts
            ELSE IF hit
              THEN /\ reqs' = [reqs EXCEPT ![r] =
                                 [q EXCEPT !.pc = "haveToken", !.applyCalls = 1,
                                           !.fabricToken = tokenCache.data.token]]
                   /\ UNCHANGED posts
            ELSE /\ reqs' = [reqs EXCEPT ![r] =
                               [q EXCEPT !.pc = "token", !.applyCalls = 1,
                                         !.tokenPosts = 1, !.tokenReq = posts + 1]]
                 /\ posts' = posts + 1
  /\ UNCHANGED <<tokenCache, now, pc, inflight, anchor, last, ticks, calls,
                 config, canonVars, signVars, nonceVars>>

\* the token endpoint answers with a token: applyFabricToken stores and returns it
TokenResolved(r) ==
  /\ reqs[r].pc = "token"
  /\ \E resp \in Responses(reqs[r].tokenReq) :
       /\ requestNewToken(resp)
       /\ tokenCache' = CacheEntry(resp.data)
       /\ reqs' = [reqs EXCEPT ![r] =
                     [@ EXCEPT !.pc = "haveToken", !.tokenReq = 0,
                               !.fabricToken = resp.data.token]]
  /\ UNCHANGED <<now, pc, inflight, posts, anchor, last, ticks, calls,
                 config, canonVars, signVars, nonceVars>>

\* the token fetch fails: applyFabricToken clears the slot and throws
TokenRejected(r) ==
  /\ reqs[r].pc = "token"
  /\ \E resp \in Responses(reqs[r].tokenReq) : ~requestNewToken(resp)
  /\ tokenCache' = CacheAfterFailure
  /\ reqs' = [reqs EXCEPT ![r] = afterTokenFailure(@)]
  /\ UNCHANGED <<now, pc, inflight, posts, anchor, last, ticks, calls,
                 config, canonVars, signVars, nonceVars>>

\* the handler goes on with the token: it builds and signs the request and
\* posts it to the gateway with the token in the Authorization header
CallGateway(r) ==
  /\ reqs[r].pc = "haveToken"
  /\ LET q == [reqs[r] EXCEPT !.signCalls = @ + 1] IN
     reqs' = [reqs EXCEPT ![r] =
       IF reqs[r].fabricToken = 0 THEN Finish(reqs[r], 500, <<>>, <<>>)
       ELSE IF ~SignsRequest THEN Finish(q, 500, <<>>, <<>>)
       ELSE [q EXCEPT !.pc = "gateway", !.auth = Append(@, Authorization(q))]]
  /\ UNCHANGED <<tokenVars, config, canonVars, signVars, nonceVars>>

\* the gateway answers, or the request to it fails; on a pre-order answered
\* with result_code '0' and a prepay_id the raw request is signed and returned
GatewayAnswered(r) ==
  /\ reqs[r].pc = "gateway"
  /\ \E ans \in GatewayAnswers, nonce \in Nonces, timestamp \in Timestamps :
       LET q == [reqs[r] EXCEPT !.answer = ans]
           code == StatusAfterGateway(q.flow, ans)
           raw == IF q.flow = "order"
                    THEN createRawRequestString(ans.prepay_id, nonce, timestamp)
                    ELSE createRawRequestString_mandate(ans.prepay_id, nonce, timestamp)
           signedQ == [q EXCEPT !.signCalls = @ + 1]
       IN reqs' = [reqs EXCEPT ![r] =
            IF code = 200 /\ q.flow # "auth"
              THEN IF raw.status = "ok"
                     THEN Finish([signedQ EXCEPT !.rawSigned = raw.signed],
                                 200, <<>>, raw.rendered)
                     ELSE Finish(signedQ, 500, <<>>, <<>>)
              ELSE Finish(q, code, <<>>, <<>>)]
  /\ UNCHANGED <<tokenVars, config, canonVars, signVars, nonceVars>>

-----------------------------------------------------------------------------
(* Nonces: createNonceStr of utils/tools.js *)

NONCE_CHARS ==
  <<"A", "B", "C", "D", "E", "F", "G", "H", "I", "J", "K", "L", "M",
    "N", "O", "P", "Q", "R", "S", "T", "U", "V", "W", "X", "Y", "Z",
    "0", "1", "2", "3", "4", "5", "6", "7", "8", "9">>

\* the values of one random byte
Bytes == 0..255

\* the lengths a caller may ask for
Lengths == {1, 2}

\* randomBytes[i] % NONCE_CHARS.length
CharIndex(byte) == byte % Len(NONCE_CHARS)

\* the loop over crypto.randomBytes(length): one symbol per byte
NonceFromBytes(randomBytes) ==
  [i \in 1..Len(randomBytes) |-> NONCE_CHARS[CharIndex(randomBytes[i]) + 1]]

\* the fallback loop: Math.floor(Math.random() * NONCE_CHARS.length) per symbol
NonceFromMathRandom(indices) ==
  [i \in 1..Len(indices) |-> NONCE_CHARS[indices[i] + 1]]

NonceStart ==
  lastNonce = [length |-> 0, source |-> "none", randomBytes |-> <<>>, out |-> <<>>]

\* createNonceStr(length): from crypto.randomBytes, or from Math.random when
\* crypto.randomBytes throws
createNonceStr ==
  /\ lastNonce.source = "none"
  /\ \E length \in Lengths :
       \/ \E randomBytes \in [1..length -> Bytes] :
            lastNonce' = [length |-> length, source |-> "crypto",
                      randomBytes |-> randomBytes, out |-> NonceFromBytes(randomBytes)]
       \/ \E indices \in [1..length -> 0..(Len(NONCE_CHARS) - 1)] :
            lastNonce' = [length |-> length, source |-> "Math.random",
                      randomBytes |-> <<>>, out |-> NonceFromMathRandom(indices)]
  /\ UNCHANGED <<tokenVars, canonVars, signVars, orderVars>>

-----------------------------------------------------------------------------
(* Specifications *)

TokenInit == TokenStart /\ CanonStart /\ SignStart /\ OrderStart /\ NonceStart

TokenNext ==
  \/ \E c \in Callers : applyFabricToken_cached(c)
  \/ \E c \in Callers : applyFabricToken_request(c)
  \/ \E c \in Callers : applyFabricToken_resolved(c)
  \/ \E c \in Callers : applyFabricToken_rejected(c)
  \/ clearTokenCache
  \/ Call_hasValidToken
  \/ Call_getCachedToken
  \/ Tick

TokenSpec == TokenInit /\ [][TokenNext]_vars

CanonInitAll == TokenStart /\ CanonInit /\ SignStart /\ OrderStart /\ NonceStart

CanonNext ==
  \/ AssignTop
  \/ AssignBiz
  \/ CallSignRequestObject

CanonSpec == CanonInitAll /\ [][CanonNext]_vars

SignInit == TokenStart /\ CanonStart /\ SignStart /\ OrderStart /\ NonceStart

SignNext ==
  \/ CallSignString
  \/ AlterSignature
  \/ CallVerifySignature
  \/ SignEnvelope
  \/ AlterSignedField
  \/ CallValidateRequestSignature

SignSpec == SignInit /\ [][SignNext]_vars

OrderInitAll == TokenStart /\ CanonStart /\ SignStart /\ OrderInit /\ NonceStart

OrderNext ==
  \/ \E r \in Requests : Arrive(r)
  \/ \E r \in Requests : TokenResolved(r)
  \/ \E r \in Requests : TokenRejected(r)
  \/ \E r \in Requests : CallGateway(r)
  \/ \E r \in Requests : GatewayAnswered(r)

OrderSpec == OrderInitAll /\ [][OrderNext]_vars

NonceInit == TokenStart /\ CanonStart /\ SignStart /\ OrderStart /\ NonceStart

NonceNext == createNonceStr

NonceSpec == NonceInit /\ [][NonceNext]_vars

-----------------------------------------------------------------------------
(* Claims about the token cache, checked under TokenSpec *)

\* C1 (as claimed): calls that miss the cache together share one request to the
\* token endpoint: any two callers awaiting a fetch await the same request.
C1_ConcurrentMissesShareOneFetch ==
  \A c1, c2 \in Callers :
    (pc[c1] = "awaiting" /\ pc[c2] = "awaiting") => inflight[c1] = inflight[c2]

\* the instant at which the validity the server declared for the cached token ends
DeclaredExpiry ==
  anchor.t + (IF anchor.E = Omitted THEN DefaultExpiresIn ELSE anchor.E)

C3_CachedExactlyUntilBuffer ==
  (last.op \in {"cached", "posted"} /\ anchor # NoAnchor /\ anchor.E > 0) =>
    IF now < anchor.t + anchor.E - bufferSeconds
      THEN /\ last.op = "cached"
           /\ last.ret.token = anchor.token
           /\ tokenCache = last.before
      ELSE last.op = "posted"

\* C4 (as claimed): the completion of a fetch never replaces or clears an entry
\* stored by a fetch that was started after it (requests are numbered in the
\* order they start, and a token carries the number of its request).
C4_OlderFetchNeverOverwritesNewer ==
  last.op \in {"stored", "failed"} =>
    ~(last.before # Null /\ last.before.data.token > last.req)

\* C5: a failed fetch (transport error, timeout, no token field) makes
\* applyFabricToken throw without a token, with the slot Empty at that moment,
\* and a call that finds the slot Empty sends a fresh request.
C5_FailureClearsAndThrows ==
  /\ last.op = "failed" =>
       /\ tokenCache = Null
       /\ last.ret = NoData
       /\ pc[last.c] = "idle"
  /\ last.op = "stored" => last.ret.token # 0
  /\ (last.op \in {"cached", "posted"} /\ last.before = Null) =>
       /\ last.op = "posted"
       /\ posts = last.req
       /\ inflight[last.c] = last.req

\* a failed fetch that found an entry in the slot and cleared it
C5_Witness ==
  /\ last.op = "failed"
  /\ last.before # Null
  /\ tokenCache = Null

\* C15 (as claimed): an entry that is past its expiry less the buffer counts as
\* no token for every exported operation: applyFabricToken sends a request,
\* hasValidToken gives false, and getCachedToken gives null.
C15_ExpiredEntryIsNoToken ==
  (last.before # Null /\ now >= last.before.expiresAt - bufferSeconds) =>
    /\ last.op \in {"cached", "posted"} => last.op = "posted"
    /\ last.op = "hasValidToken" => last.flag = FALSE
    /\ last.op = "getCachedToken" => last.ret = NoData

\* C24 (as claimed): a response that declares expiresIn = E is cached with an
\* expiry exactly E seconds after the fetch, whatever E is, and a response that
\* omits expiresIn with an expiry 3600 seconds after the fetch.
C24_ExpiryIsDeclaredValidity ==
  last.op = "stored" =>
    tokenCache.expiresAt =
      now + (IF last.ret.expiresIn = Omitted THEN 3600 ELSE last.ret.expiresIn)

\* C25: the slot is empty or holds an entry with a token and a numeric expiry
\* that a successful fetch gave it; what a failed, timed-out or token-less fetch
\* gave is never stored.
C25_SlotEmptyOrWholeEntry ==
  /\ tokenCache = Null \/
       /\ tokenCache.data.token \in 1..posts
       /\ tokenCache.expiresAt \in Nat
       /\ tokenCache.expiresAt > 0
       /\ tokenCache.data.expiresIn \in ExpiresInValues
  /\ last.op = "failed" => tokenCache = Null
  /\ last.op = "stored" => last.ret.token # 0 /\ tokenCache.data = last.ret

\* a fetch on an empty slot got no token, and the slot is still empty
C25_Witness ==
  /\ last.op = "failed"
  /\ last.before = Null
  /\ tokenCache = Null
  /\ posts > 0

\* C28: at the moment applyFabricToken returns a token, the slot holds exactly
\* the token data returned, however concurrent calls of applyFabricToken and
\* clearTokenCache interleave.
C28_ReturnedDataIsInSlot ==
  last.op \in {"cached", "stored"} =>
    /\ tokenCache # Null
    /\ tokenCache.data = last.ret
    /\ last.ret.token # 0

\* a fetch that ended after a later one had stored its token returns its own
\* token, and that is what the slot then holds
C28_Witness ==
  /\ last.op = "stored"
  /\ last.before # Null
  /\ last.before.data.token > last.ret.token
  /\ tokenCache.data = last.ret

-----------------------------------------------------------------------------
(* Claims about the canonical string, checked under CanonSpec *)

\* the biz_content object of the request, empty when it has none
BizOf(value) ==
  IF IsPlainObject(value) /\ HasKey(value[2], "biz_content")
     /\ GetKey(value[2], "biz_content")[1] = "object"
    THEN GetKey(value[2], "biz_content")[2]
    ELSE <<>>

\* the names that have a value and are not excluded, at top level or in biz_content
SignableNames(value) ==
  LET Named(o) == {o[i][1] : i \in {j \in 1..Len(o) :
                      ~IsNullish(o[j][2]) /\ o[j][1] \notin EXCLUDE_FIELDS}}
  IN IF IsPlainObject(value) THEN Named(value[2]) \cup Named(BizOf(value)) ELSE {}

TokenKeys(parts) == {parts[i][1] : i \in 1..Len(parts)}

Tokens(parts) == {parts[i] : i \in 1..Len(parts)}

\* C6 (as claimed): two request objects with the same fields and values at every
\* depth, in different insertion orders, give the same canonical string.
C6_InsertionOrderIrrelevant ==
  signed.a.status # "none" => signed.b = signed.a

\* C7: no token of the canonical string has a key of the exclusion set, wherever
\* the request carried that field.
C7_NoExcludedKey ==
  signed.a.status = "ok" =>
    \A i \in 1..Len(signed.a.parts) : signed.a.parts[i][1] \notin EXCLUDE_FIELDS

\* a signed request that carries sign at top level and inside biz_content
C7_Witness ==
  /\ signed.a.status = "ok"
  /\ HasKey(requestObject[2], "sign")
  /\ HasKey(BizOf(requestObject), "sign")

\* C8: every child of biz_content that has a value and is not excluded is a token
\* of its own, an object among them as one token holding its serialization, and
\* no deeper property becomes a token.
C8_BizChildrenFlattenedOneLevel ==
  signed.a.status = "ok" =>
    LET biz == BizOf(requestObject) IN
    /\ \A i \in 1..Len(biz) :
         (~IsNullish(biz[i][2]) /\ biz[i][1] \notin EXCLUDE_FIELDS) =>
           /\ <<biz[i][1], StringValue(biz[i][2])>> \in Tokens(signed.a.parts)
           /\ biz[i][2] = Obj(<< <<"p", Num("1")>>, <<"q", Str("x")>> >>) =>
                <<"extra", "{\"p\":1,\"q\":\"x\"}">> \in Tokens(signed.a.parts)
    /\ TokenKeys(signed.a.parts) \cap {"p", "q"} = {}
    /\ "biz_content" \notin TokenKeys(signed.a.parts)

\* a nested object inside biz_content, next to a top-level field, was signed
C8_Witness ==
  /\ signed.a.status = "ok"
  /\ HasKey(BizOf(requestObject), "extra")
  /\ HasKey(BizOf(requestObject), "title")
  /\ "method" \in TokenKeys(signed.a.parts)
  /\ <<"extra", "{\"q\":\"x\",\"p\":1}">> \in Tokens(signed.a.parts)

\* C9: the canonical string joins with '&' the key=value tokens of exactly the
\* signable field names, each once, in strictly ascending code-unit order.
C9_SortedUniqueKeys ==
  signed.a.status = "ok" =>
    LET parts == signed.a.parts IN
    /\ \A i \in 1..(Len(parts) - 1) : CodeUnitLess(parts[i][1], parts[i + 1][1])
    /\ TokenKeys(parts) = SignableNames(requestObject)
    /\ Len(parts) = Cardinality(SignableNames(requestObject))
    /\ signed.a.str = JoinParts(parts)
    /\ (Len(parts) = 1 => signed.a.str = parts[1][1] \o "=" \o parts[1][2])

\* method is given at top level and inside biz_content, next to an upper-case name
C9_Witness ==
  /\ signed.a.status = "ok"
  /\ HasKey(requestObject[2], "method")
  /\ HasKey(BizOf(requestObject), "method")
  /\ signed.a.str = "Title=&method=get"

\* C16: a field whose value is null or undefined, at top level or inside
\* biz_content, gives no token, and a field whose value is the empty string is
\* kept and gives the token 'key='.
C16_NullDroppedEmptyKept ==
  signed.a.status = "ok" =>
    LET top == signed.input[2]
        biz == BizOf(signed.input)
        parts == signed.a.parts
        Given(o, k) == HasKey(o, k) /\ ~IsNullish(GetKey(o, k))
        Taken(k) == HasKey(biz, k) /\ ~IsNullish(GetKey(biz, k)) /\ k \notin EXCLUDE_FIELDS
    IN /\ \A i \in 1..Len(parts) : parts[i][2] \notin {"null", "undefined"}
       /\ \A k \in TokenKeys(parts) : Given(top, k) \/ Given(biz, k)
       /\ \A i \in 1..Len(top) :
            (top[i][2] = Str("") /\ top[i][1] \notin EXCLUDE_FIELDS /\ ~Taken(top[i][1])) =>
              <<top[i][1], "">> \in Tokens(parts)
       /\ \A i \in 1..Len(biz) :
            (biz[i][2] = Str("") /\ biz[i][1] \notin EXCLUDE_FIELDS) =>
              <<biz[i][1], "">> \in Tokens(parts)
       /\ (Len(parts) = 1 /\ parts[1][2] = "") => signed.a.str = parts[1][1] \o "="

\* a null field at top level next to an empty string: the string alone is signed
C16_Witness ==
  /\ signed.a.status = "ok"
  /\ HasKey(signed.input[2], "method")
  /\ GetKey(signed.input[2], "method") = JsNull
  /\ HasKey(BizOf(signed.input), "title")
  /\ GetKey(BizOf(signed.input), "title") = JsNull
  /\ signed.a.str = "Title="

\* C17: signRequestObject leaves the caller's request object as it was, its
\* biz_content and nested objects included, whether it signs or raises.
C17_CallerObjectUnchanged ==
  signed.a.status # "none" => requestObject = signed.input

\* a request with a null property and a biz_content was signed
C17_Witness ==
  /\ signed.a.status = "ok"
  /\ \E i \in 1..Len(signed.input[2]) : IsNullish(signed.input[2][i][2])
  /\ BizOf(signed.input) # <<>>
  /\ requestObject = signed.input

\* C18: when no field is left after the absent values are dropped, biz_content
\* is flattened and the excluded fields are removed, signRequestObject raises
\* an error and gives no canonical string to sign.
C18_NoSignableFieldRaises ==
  (signed.a.status # "none" /\ signed.input[1] = "object"
     /\ SignableNames(signed.input) = {}) => signed.a = Failure

\* a request that has only excluded and null fields was refused
C18_Witness ==
  /\ signed.a.status = "error"
  /\ signed.input[1] = "object"
  /\ HasKey(signed.input[2], "sign")
  /\ HasKey(BizOf(signed.input), "title")

\* C19: for null, undefined, a scalar that is no object, and an array,
\* signRequestObject raises an error and signs nothing.
C19_NonObjectsRejected ==
  (signed.a.status # "none" /\ signed.input[1] # "object") => signed.a = Failure

\* an array with an element was refused
C19_Witness ==
  /\ signed.a.status = "error"
  /\ signed.input[1] = "array"
  /\ Len(signed.input[2]) > 0

-----------------------------------------------------------------------------
(* Claims about signing and verification, checked under SignSpec *)

\* the signer's own call succeeded on a non-empty string with a private key
SignedOk ==
  /\ signing.out.status = "ok"
  /\ IsString(signing.text) /\ signing.text # Str("")
  /\ signing.key[1] = "private"

\* C10: a signature made by signString over a non-empty string verifies against
\* the same string under the public key of the pair, and does not verify once
\* the string or the signature differs from what was signed.
C10_SignVerifyRoundTrip ==
  /\ (signing.out.status # "none" /\ IsString(signing.text) /\ signing.text # Str("")
        /\ signing.key[1] = "private") => signing.out.status = "ok"
  /\ (SignedOk /\ verified.out # "none" /\ verified.key = <<"public", signing.key[2]>>) =>
       IF verified.text = signing.text /\ wire = signing.out.sig
         THEN verified.out = "true"
         ELSE verified.out = "false"

\* a signature was made, left alone, and verified against the signed text
C10_Witness ==
  /\ SignedOk
  /\ wire = signing.out.sig
  /\ verified.text = signing.text
  /\ verified.key = <<"public", signing.key[2]>>
  /\ verified.out = "true"


\* C11 (as claimed): verifySignature gives a boolean and never raises, whatever
\* the text, the signature and the public key are, a failure inside the crypto
\* library included.
C11_VerifyNeverThrows ==
  verified.out \in {"none", "true", "false"}

\* C20: signString gives a signature only for a non-empty string and a private
\* key that parses; for an empty text or a key that does not parse as a private
\* key it raises an error and gives no signature.
C20_SignStringGuards ==
  /\ signing.out.status = "ok" =>
       /\ IsString(signing.text) /\ signing.text # Str("")
       /\ KeyParses(signing.key) /\ signing.key[1] = "private"
       /\ signing.out.sig.enc = "base64"
  /\ (signing.out.status # "none"
        /\ (signing.text = Str("") \/ signing.key[1] # "private")) =>
       /\ signing.out.status = "error"
       /\ signing.out.sig = NoSignature

\* signString was called with the empty string and a good private key, and raised
C20_Witness ==
  /\ signing.text = Str("")
  /\ signing.key[1] = "private"
  /\ signing.out.status = "error"
  /\ wire = NoSignature

\* C23 (as claimed): for a request object whose sign property signRequestObject
\* produced over its other properties with the configured private key,
\* validateRequestSignature with the public key of the configured pair returns
\* true while the signed properties are as they were signed, and false once one
\* of them has been altered.
C23_ValidatesWhatWasSigned ==
  (validated.out # "none" /\ validated.key = <<"public", config.privateKey[2]>>) =>
    validated.out = (IF envelope.fields = envelope.signedFields THEN "true" ELSE "false")

-----------------------------------------------------------------------------
(* Claims about nonces, checked under NonceSpec *)

\* how many byte values give the symbol at index k
ByteValuesFor ==
  [k \in 0..(Len(NONCE_CHARS) - 1) |-> Cardinality({b \in Bytes : CharIndex(b) = k})]

\* the place of a symbol in the alphabet, counted from 0
IndexInAlphabet(ch) == (CHOOSE k \in 1..Len(NONCE_CHARS) : NONCE_CHARS[k] = ch) - 1

\* C26 (as claimed): createNonceStr(length) returns, for a positive length,
\* exactly that many symbols of the 36-symbol uppercase-alphanumeric alphabet,
\* and a symbol taken from a random byte is one that as many byte values 0..255
\* give as give any other symbol.
C26_NonceIsUniformOverAlphabet ==
  lastNonce.source # "none" =>
    /\ Len(lastNonce.out) = lastNonce.length
    /\ Len(NONCE_CHARS) = 36
    /\ \A i \in 1..Len(lastNonce.out) : \E k \in 1..36 : lastNonce.out[i] = NONCE_CHARS[k]
    /\ lastNonce.source = "crypto" =>
         \A i \in 1..Len(lastNonce.out) : \A k \in 0..35 :
           ByteValuesFor[IndexInAlphabet(lastNonce.out[i])] = ByteValuesFor[k]

-----------------------------------------------------------------------------
(* Claims about the request handlers, checked under OrderSpec *)

\* the strings that are numerals
Numerals == {"0", "100", "1000001"}

\* the body breaks one of the rules the claim lists: amount 0, an amount that is
\* no number, an empty or blank title, no contract number on a mandate order
BreaksListedRule(q) ==
  \/ q.body.amount = Num("0")
  \/ (IsString(q.body.amount) /\ q.body.amount[2] \notin Numerals)
  \/ q.body.title \in {Str(""), Str("  ")}
  \/ (q.flow = "mandate" /\ q.body.ContractNo = Undefined)

\* C12 (as claimed): an order or mandate-order request whose body breaks one of
\* the listed rules is answered with a validation error that lists the rules
\* broken, and for it no token is fetched, nothing is signed and the gateway is
\* not called.
C12_InvalidBodyStopsAtValidation ==
  \A r \in Requests :
    LET q == reqs[r] IN
    (q.flow \in {"order", "mandate"} /\ BreaksListedRule(q)) =>
      /\ q.pc = "done"
      /\ q.status = 400
      /\ q.errors # <<>>
      /\ q.applyCalls = 0 /\ q.tokenPosts = 0
      /\ q.signCalls = 0
      /\ q.auth = <<>>

\* C13: every pre-order and auth-token request to the gateway is sent after
\* applyFabricToken has returned a token within the same incoming request and
\* carries exactly that token in its Authorization header; a request for which
\* no token was obtained sends nothing to the gateway.
C13_GatewayCallCarriesReturnedToken ==
  \A r \in Requests :
    LET q == reqs[r] IN
    /\ \A i \in 1..Len(q.auth) :
         /\ q.applyCalls = 1
         /\ q.fabricToken # 0
         /\ q.auth[i] = q.fabricToken
    /\ q.pc \in {"gateway"} => Len(q.auth) = 1
    /\ q.fabricToken = 0 => q.auth = <<>>

\* a gateway call went out with the token the request had been given, after the
\* failed fetch of another request had emptied the cache
C13_Witness ==
  \E r \in Requests :
    /\ Len(reqs[r].auth) = 1
    /\ reqs[r].auth[1] = reqs[r].fabricToken
    /\ reqs[r].tokenPosts = 1
    /\ tokenCache = Null
    /\ \E o \in Requests \ {r} : reqs[o].tokenPosts = 1 /\ reqs[o].status = 500

RECURSIVE SumOfTokenPosts(_)
SumOfTokenPosts(rs) ==
  IF rs = {} THEN 0
  ELSE LET r == CHOOSE x \in rs : TRUE IN reqs[r].tokenPosts + SumOfTokenPosts(rs \ {r})

\* C14: one call of applyFabricToken sends at most one request to the token
\* endpoint, and an incoming order, mandate-order or auth request calls
\* applyFabricToken at most once, so that a failed fetch is not retried within
\* the request.
C14_OneTokenCallPerRequest ==
  /\ \A r \in Requests :
       /\ reqs[r].applyCalls <= 1
       /\ reqs[r].tokenPosts <= reqs[r].applyCalls
  /\ posts = SumOfTokenPosts(Requests)

\* a mandate-order request whose one token fetch failed was answered without a
\* second fetch
C14_Witness ==
  \E r \in Requests :
    /\ reqs[r].flow = "mandate"
    /\ reqs[r].pc = "done"
    /\ reqs[r].status = 500
    /\ reqs[r].fabricToken = 0
    /\ reqs[r].applyCalls = 1
    /\ reqs[r].tokenPosts = 1
    /\ posts = 1

\* the value is a number, given as a number or as a numeral
IsNumber(v) == v[1] \in {"number", "string"} /\ v[2] \in Numerals

\* the value is a string with something other than blanks in it
IsNonBlank(v) == IsString(v) /\ v[2] \notin {"", " ", "  "}

\* C21 (as claimed): in the order and the mandate-order flow, a request that
\* passed validation (the handler went on to fetch a token) has a non-blank
\* title of at most 256 characters and an amount that is a positive number not
\* above 1000000; a mandate order also has a non-blank contract number of at
\* most 100 characters.
C21_ValidatedBodyIsWithinLimits ==
  \A r \in Requests :
    LET q == reqs[r] IN
    (q.flow \in {"order", "mandate"} /\ q.applyCalls >= 1) =>
      /\ IsNonBlank(q.body.title) /\ Len(q.body.title[2]) <= 256
      /\ IsNumber(q.body.amount)
      /\ ParsedFloat[q.body.amount[2]].val > 0
      /\ ParsedFloat[q.body.amount[2]].val <= 1000000
      /\ q.flow = "mandate" =>
            IsNonBlank(q.body.ContractNo) /\ Len(q.body.ContractNo[2]) <= 100

\* the keys of a raw request string, in the order they are written
RawRequestKeys(raw) == [i \in 1..Len(raw) |-> raw[i][1]]

\* C22 (as claimed): a raw request string lists exactly appid, merch_code,
\* nonce_str, prepay_id, timestamp, sign, sign_type in that order, and the value
\* it shows for each of the first five is the value that was signed under that
\* name.
C22_RawRequestShowsWhatWasSigned ==
  \A r \in Requests :
    LET q == reqs[r] IN
    q.rawRequest # <<>> =>
      /\ RawRequestKeys(q.rawRequest) =
           <<"appid", "merch_code", "nonce_str", "prepay_id", "timestamp",
             "sign", "sign_type">>
      /\ Len(q.rawSigned) = 5
      /\ \A i \in 1..5 : \E j \in 1..5 : q.rawRequest[i] = q.rawSigned[j]

\* C27 (as claimed): a request that has been dealt with got exactly one
\* response written: never none, never a second one.
C27_ExactlyOneResponseWritten ==
  \A r \in Requests : reqs[r].pc = "done" => reqs[r].writes = 1

\* the gateway answered the pre-order with result_code '0' and a prepay_id
PreOrderSucceeded(q) ==
  /\ q.flow \in {"order", "mandate"}
  /\ q.answer.kind = "ok"
  /\ q.answer.result_code = "0"
  /\ q.answer.biz = "prepay"
  /\ q.answer.prepay_id # ""

\* C29: a raw request string is signed and returned only after the gateway has
\* answered the pre-order with result_code '0' and a prepay_id; on every other
\* outcome the response carries no rawRequest and no second envelope is signed.
C29_RawRequestOnlyAfterSuccess ==
  \A r \in Requests :
    LET q == reqs[r] IN
    /\ (q.rawRequest # <<>> \/ q.rawSigned # <<>> \/ q.signCalls > 1) =>
          PreOrderSucceeded(q) /\ q.pc = "done"
    /\ q.rawRequest # <<>> => q.status = 200 /\ q.rawSigned # <<>> /\ q.signCalls = 2
    /\ (q.pc = "done" /\ ~PreOrderSucceeded(q)) =>
          q.rawRequest = <<>> /\ q.signCalls <= 1

\* a mandate order and a regular order whose pre-orders the gateway accepted
\* were answered with a raw request, and another request whose pre-order came
\* back with a prepay_id under an error code was not
C29_Witness ==
  /\ \E r \in Requests :
       /\ reqs[r].flow = "mandate"
       /\ reqs[r].rawRequest # <<>>
       /\ reqs[r].status = 200
       /\ reqs[r].signCalls = 2
       /\ reqs[r].answer.result_code = "0"
  /\ \E r \in Requests :
       /\ reqs[r].pc = "done"
       /\ reqs[r].answer.biz = "prepay"
       /\ reqs[r].answer.result_code = "E"
       /\ reqs[r].rawRequest = <<>>
       /\ reqs[r].signCalls = 1

\* the token fetch of the request failed
TokenFetchFailed(q) == q.applyCalls = 1 /\ q.fabricToken = 0 /\ q.pc = "done"

\* C30 (as claimed): in each flow a request whose body fails validation is
\* answered with a 4xx status, and a request whose token fetch or gateway call
\* failed in transport is answered with a 5xx status.
C30_StatusTellsWhoFailed ==
  \A r \in Requests :
    LET q == reqs[r] IN
    q.pc = "done" =>
      /\ validation(q.flow, q.body) # <<>> => q.status \in 400..499
      /\ TokenFetchFailed(q) => q.status \in 500..599
      /\ q.answer.kind = "transport" => q.status \in 500..599

=============================================================================
